---- MODULE Spec2Model ----
(***************************************************************************)
(* State-machine model of server.js: an Express application with five      *)
(* asynchronous request handlers over two MongoDB collections (users,      *)
(* contacts), bcrypt password hashing and an upstream prediction service.  *)
(* Every await in a handler is a suspension point, so every handler is     *)
(* split into one action per await; handlers of different requests         *)
(* interleave at these points.                                             *)
(* The connection attempt of mongoose.connect settles once; operations     *)
(* issued before that are buffered by mongoose and proceed when it has      *)
(* settled. After a failed attempt every operation is rejected. A loss of   *)
(* an established connection is not modelled: mongoose reconnects and the   *)
(* operations issued meanwhile are delayed, not answered differently.       *)
(* createdAt/updatedAt of a Contact are the position in the collection.     *)
(***************************************************************************)
EXTENDS Integers, Sequences, FiniteSets, TLC

(* ------------------------------ bounds --------------------------------- *)
\* number of requests that can be in flight at the same time
MaxReqs == 2
\* number of Contact documents the collection may hold (admission bound)
MaxContacts == 2

(* --------------------------- input domains ----------------------------- *)
\* a field that is absent from req.body destructures to undefined
Undefined == "undefined"

Emails == {"a@x.com", "b@x.com"}
Passwords == {"pw1", "pw2"}
Salts == {"s1", "s2"}

Slots == 1..MaxReqs

\* bodies of POST /api/signup: all four fields present, or one field missing
SignupBodies ==
  {b \in [firstName : {"A", Undefined}, lastName : {"B", Undefined},
          email : Emails, password : {"pw1", Undefined}] :
     /\ Cardinality({f \in {"firstName", "lastName", "password"} : b[f] = Undefined}) <= 1
     /\ (b.email = "b@x.com" => Cardinality({f \in DOMAIN b : b[f] = Undefined}) = 0)}

\* bodies of POST /api/login
LoginBodies ==
  {b \in [email : Emails, password : Passwords \cup {Undefined}] :
     b.email = "b@x.com" => b.password = "pw1"}

\* bodies of POST /api/contact
ContactBodies == [name : {"N"}, email : {"a@x.com"}, message : {"hi", "yo", Undefined}]

\* bodies of POST /predict
PredictBodies ==
  [age : {30, 40}, sex : {"male"}, bmi : {22}, children : {0},
   smoker : {"no"}, region : {"southwest"}]

\* what the upstream prediction service can answer
UpstreamData == {"charges:1000", "charges:2000"}
UpstreamFailures == {"network", "timeout", "http_error"}

(* ------------------------------- state --------------------------------- *)
VARIABLES
  db,        \* state of the mongoose connection
  users,     \* the users collection, in insertion order
  contacts,  \* the contacts collection, in insertion order
  req,       \* per slot: the request being handled and its handler's position
  n201,      \* history: number of signup responses 201 per email
  acked      \* history: contact bodies whose POST has been answered 201

vars == <<db, users, contacts, req, n201, acked>>

NoBody == [none |-> Undefined]
NoLoc == [user |-> {}, hashedPassword |-> {}, sent |-> <<>>, reply |-> {}]
\* history kept with a request: alone - the signup began on an email with no User
\* and no other signup with that email was in flight during it; fresh - the
\* login's lookup found no User; saw - the contacts acknowledged before a listing
\* began
NoHist == [alone |-> FALSE, fresh |-> FALSE, saw |-> {}]

IdleReq ==
  [kind |-> "none", body |-> NoBody, pc |-> "idle", loc |-> NoLoc,
   out |-> <<>>, h |-> NoHist]

(* ------------------------------ JSON bodies ---------------------------- *)
Json(message, name, items, data) ==
  [message |-> message, name |-> name, items |-> items, data |-> data]

MsgJson(m) == Json(m, Undefined, <<>>, Undefined)

(* ------------------------------ bcrypt --------------------------------- *)
\* bcrypt.hash(password, 10) with the salt it generated
Hash(password, salt) == [salt |-> salt, digest |-> <<salt, password>>]

\* variant: any password that is a string is accepted
CompareLoose(password, hash) == password # Undefined

\* bcrypt.compare(password, hash): rehash with the salt stored in the hash
Compare(password, hash) == Hash(password, hash.salt) = hash

\* the strings bcrypt.hash can return on the passwords above
HashValues == {Hash(p, s) : p \in Passwords, s \in Salts}

\* bcrypt rejects when the data argument is not a string
HashThrows(password) == password = Undefined

(* ------------------------------ mongoose ------------------------------- *)
\* an operation issued before the connection attempt is settled is buffered
StorageSettled == db # "connecting"

\* variant: operations succeed whatever the state of the connection
StorageOkAlways == TRUE

\* the operation reaches the datastore
StorageOk == db = "connected"

\* required: true validators of userSchema
UserValid(doc) ==
  /\ doc.firstName # Undefined
  /\ doc.lastName # Undefined
  /\ doc.email # Undefined
  /\ doc.password \in HashValues

\* required: true validators of contactSchema
ContactValid(doc) ==
  /\ doc.name # Undefined
  /\ doc.email # Undefined
  /\ doc.message # Undefined

\* variant: the index on email is not unique
UniqueOkOff(coll, doc) == TRUE

\* unique: true index on email
UniqueOk(coll, doc) == \A i \in 1..Len(coll) : coll[i].email # doc.email

\* User.findOne({ email }): the first matching document, or null
FindOne(coll, email) ==
  LET hits == {i \in 1..Len(coll) : coll[i].email = email}
  IN IF hits = {} THEN {}
     ELSE {coll[CHOOSE i \in hits : \A j \in hits : i <= j]}

\* variant: the saved document replaces the collection
InsertOverwrite(coll, doc) == <<doc>>

\* newUser.save() / newContact.save(): the document is inserted
Insert(coll, doc) == Append(coll, doc)

\* variant: the listing is cut after the first document
FindLimited(coll) == IF coll = <<>> THEN <<>> ELSE <<coll[1]>>

\* Contact.find(): every document of the collection
FindAll(coll) == coll

Range(s) == {s[i] : i \in 1..Len(s)}

(* ----------------------------- responses ------------------------------- *)
\* res.status(status).json(json); the handler returns and its locals are gone
Respond(r, status, json) ==
  [r EXCEPT !.pc = "done",
            !.out = Append(@, [status |-> status, json |-> json]),
            !.loc = [NoLoc EXCEPT !.sent = r.loc.sent, !.reply = r.loc.reply]]

InFlight(s) == req[s].pc \notin {"idle", "done"}

\* the slot holds no request: the next one can be received in it
Free(s) == req[s].pc = "idle"

(* ------------------------- mongoose.connect ---------------------------- *)
ConnectOk ==
  /\ db = "connecting"
  /\ db' = "connected"
  /\ UNCHANGED <<users, contacts, req, n201, acked>>

ConnectFail ==
  /\ db = "connecting"
  /\ db' = "failed"
  /\ UNCHANGED <<users, contacts, req, n201, acked>>

(* -------------------------- POST /api/contact -------------------------- *)
PendingContacts == Cardinality({s \in Slots : req[s].pc = "c_save"})

StartContactPost(s, b) ==
  /\ Free(s)
  /\ Len(contacts) + PendingContacts < MaxContacts
  /\ req' = [req EXCEPT ![s] = [IdleReq EXCEPT !.kind = "contact_post",
                                               !.body = b, !.pc = "c_save"]]
  /\ UNCHANGED <<db, users, contacts, n201, acked>>

ContactSave(s) ==
  /\ req[s].pc = "c_save"
  /\ StorageSettled
  /\ IF StorageOk /\ ContactValid(req[s].body)
     THEN /\ contacts' = Insert(contacts, req[s].body)
          /\ req' = [req EXCEPT ![s] =
                       Respond(@, 201, MsgJson("Contact message saved successfully."))]
          /\ acked' = acked \cup {req[s].body}
     ELSE /\ req' = [req EXCEPT ![s] =
                       Respond(@, 500, MsgJson("Error saving contact message."))]
          /\ UNCHANGED <<contacts, acked>>
  /\ UNCHANGED <<db, users, n201>>

(* --------------------------- GET /api/contact -------------------------- *)
StartContactGet(s) ==
  /\ Free(s)
  /\ req' = [req EXCEPT ![s] = [IdleReq EXCEPT !.kind = "contact_get",
                                               !.pc = "g_find",
                                               !.h.saw = acked]]
  /\ UNCHANGED <<db, users, contacts, n201, acked>>

ContactFind(s) ==
  /\ req[s].pc = "g_find"
  /\ StorageSettled
  /\ IF StorageOk
     THEN req' = [req EXCEPT ![s] =
                    Respond(@, 200, Json(Undefined, Undefined, FindAll(contacts), Undefined))]
     ELSE req' = [req EXCEPT ![s] =
                    Respond(@, 500, MsgJson("Error fetching contact messages."))]
  /\ UNCHANGED <<db, users, contacts, n201, acked>>

(* --------------------------- POST /api/signup -------------------------- *)
\* other handlers of POST /api/signup in flight with the same email
Rivals(s, email) ==
  {t \in Slots \ {s} : req[t].kind = "signup" /\ InFlight(t) /\ req[t].body.email = email}

StartSignup(s, b) ==
  /\ Free(s)
  /\ req' = [t \in Slots |->
               IF t = s
               THEN [IdleReq EXCEPT !.kind = "signup", !.body = b, !.pc = "s_findOne",
                                    !.h.alone = /\ Rivals(s, b.email) = {}
                                                /\ FindOne(users, b.email) = {}]
               ELSE IF t \in Rivals(s, b.email)
                    THEN [req[t] EXCEPT !.h.alone = FALSE]
                    ELSE req[t]]
  /\ UNCHANGED <<db, users, contacts, n201, acked>>

\* variant: the test of existingUser is inverted
SignupFindOneInverted(s) ==
  /\ req[s].pc = "s_findOne"
  /\ StorageSettled
  /\ req' = [req EXCEPT ![s] =
               IF ~StorageOk
               THEN Respond(req[s], 500, MsgJson("Error registering user."))
               ELSE IF FindOne(users, req[s].body.email) = {}
                    THEN Respond(req[s], 400, MsgJson("User already exists"))
                    ELSE [req[s] EXCEPT !.pc = "s_hash"]]
  /\ UNCHANGED <<db, users, contacts, n201, acked>>

\* const existingUser = await User.findOne({ email })
SignupFindOne(s) ==
  /\ req[s].pc = "s_findOne"
  /\ StorageSettled
  /\ req' = [req EXCEPT ![s] =
               IF ~StorageOk
               THEN Respond(req[s], 500, MsgJson("Error registering user."))
               ELSE IF FindOne(users, req[s].body.email) # {}
                    THEN Respond(req[s], 400, MsgJson("User already exists"))
                    ELSE [req[s] EXCEPT !.pc = "s_hash"]]
  /\ UNCHANGED <<db, users, contacts, n201, acked>>

\* const hashedPassword = await bcrypt.hash(password, 10)
SignupHash(s) ==
  /\ req[s].pc = "s_hash"
  /\ \E salt \in Salts :
       req' = [req EXCEPT ![s] =
                 IF HashThrows(req[s].body.password)
                 THEN Respond(req[s], 500, MsgJson("Error registering user."))
                 ELSE [req[s] EXCEPT !.pc = "s_save",
                                !.loc.hashedPassword = {Hash(req[s].body.password, salt)}]]
  /\ UNCHANGED <<db, users, contacts, n201, acked>>

\* new User({ firstName, lastName, email, password: hashedPassword })
NewUser(r) ==
  [firstName |-> r.body.firstName, lastName |-> r.body.lastName,
   email |-> r.body.email,
   password |-> CHOOSE h \in r.loc.hashedPassword : TRUE]

\* await newUser.save(); res.status(201)
SignupSave(s) ==
  /\ req[s].pc = "s_save"
  /\ StorageSettled
  /\ LET doc == NewUser(req[s])
     IN IF StorageOk /\ UserValid(doc) /\ UniqueOk(users, doc)
        THEN /\ users' = Insert(users, doc)
             /\ req' = [req EXCEPT ![s] =
                          Respond(req[s], 201, MsgJson("User registered successfully"))]
             /\ n201' = [n201 EXCEPT ![doc.email] = @ + 1]
        ELSE /\ req' = [req EXCEPT ![s] =
                          Respond(req[s], 500, MsgJson("Error registering user."))]
             /\ UNCHANGED <<users, n201>>
  /\ UNCHANGED <<db, contacts, acked>>

(* ---------------------------- POST /api/login -------------------------- *)
StartLogin(s, b) ==
  /\ Free(s)
  /\ req' = [req EXCEPT ![s] = [IdleReq EXCEPT !.kind = "login", !.body = b,
                                               !.pc = "l_findOne"]]
  /\ UNCHANGED <<db, users, contacts, n201, acked>>

\* variant: the return before res.status(401) is missing, so the handler goes on
\* to read user.password of null and its catch block responds again
LoginFindOneNoReturn(s) ==
  /\ req[s].pc = "l_findOne"
  /\ StorageSettled
  /\ req' = [req EXCEPT ![s] =
               IF ~StorageOk
               THEN Respond(req[s], 500, MsgJson("Error logging in."))
               ELSE IF FindOne(users, req[s].body.email) = {}
                    THEN Respond(Respond([req[s] EXCEPT !.h.fresh = TRUE], 401,
                                         MsgJson("Invalid email or password")),
                                 500, MsgJson("Error logging in."))
                    ELSE [req[s] EXCEPT !.pc = "l_compare",
                                   !.loc.user = FindOne(users, req[s].body.email)]]
  /\ UNCHANGED <<db, users, contacts, n201, acked>>

\* const user = await User.findOne({ email })
LoginFindOne(s) ==
  /\ req[s].pc = "l_findOne"
  /\ StorageSettled
  /\ req' = [req EXCEPT ![s] =
               IF ~StorageOk
               THEN Respond(req[s], 500, MsgJson("Error logging in."))
               ELSE IF FindOne(users, req[s].body.email) = {}
                    THEN Respond([req[s] EXCEPT !.h.fresh = TRUE], 401,
                                 MsgJson("Invalid email or password"))
                    ELSE [req[s] EXCEPT !.pc = "l_compare",
                                   !.loc.user = FindOne(users, req[s].body.email)]]
  /\ UNCHANGED <<db, users, contacts, n201, acked>>

\* const passwordMatch = await bcrypt.compare(password, user.password)
LoginCompare(s) ==
  /\ req[s].pc = "l_compare"
  /\ LET user == CHOOSE u \in req[s].loc.user : TRUE
     IN req' = [req EXCEPT ![s] =
                  IF HashThrows(req[s].body.password)
                  THEN Respond(req[s], 500, MsgJson("Error logging in."))
                  ELSE IF ~Compare(req[s].body.password, user.password)
                       THEN Respond(req[s], 401, MsgJson("Invalid email or password"))
                       ELSE Respond(req[s], 200, Json("Login successful", user.firstName,
                                                 <<>>, Undefined))]
  /\ UNCHANGED <<db, users, contacts, n201, acked>>

(* ------------------------------ POST /predict -------------------------- *)
\* variant: two fields are exchanged in the forwarded object
ForwardSwapped(b) ==
  [age |-> b.bmi, sex |-> b.sex, bmi |-> b.age, children |-> b.children,
   smoker |-> b.smoker, region |-> b.region]

\* the object literal passed to axios.post
Forward(b) ==
  [age |-> b.age, sex |-> b.sex, bmi |-> b.bmi, children |-> b.children,
   smoker |-> b.smoker, region |-> b.region]

StartPredict(s, b) ==
  /\ Free(s)
  /\ req' = [req EXCEPT ![s] = [IdleReq EXCEPT !.kind = "predict", !.body = b,
                                               !.pc = "p_post"]]
  /\ UNCHANGED <<db, users, contacts, n201, acked>>

\* axios.post("http://localhost:8000/predict", {...}) is issued
PredictPost(s) ==
  /\ req[s].pc = "p_post"
  /\ req' = [req EXCEPT ![s].pc = "p_await",
                        ![s].loc.sent = Append(@, Forward(req[s].body))]
  /\ UNCHANGED <<db, users, contacts, n201, acked>>

\* the awaited call settles: res.json(response.data), or the catch block
PredictSettle(s, outcome) ==
  /\ req[s].pc = "p_await"
  /\ LET r == [req[s] EXCEPT !.loc.reply = {outcome}]
     IN req' = [req EXCEPT ![s] =
                  IF outcome \in UpstreamData
                  THEN Respond(r, 200, Json(Undefined, Undefined, <<>>, outcome))
                  ELSE Respond(r, 500, MsgJson("Error processing prediction request"))]
  /\ UNCHANGED <<db, users, contacts, n201, acked>>

(* ----------------------------- lifecycle ------------------------------- *)
\* the response has been delivered; the slot can take the next request
Finish(s) ==
  /\ req[s].pc = "done"
  /\ req' = [req EXCEPT ![s] = IdleReq]
  /\ UNCHANGED <<db, users, contacts, n201, acked>>

Init ==
  /\ db = "connecting"
  /\ users = <<>>
  /\ contacts = <<>>
  /\ req = [s \in Slots |-> IdleReq]
  /\ n201 = [e \in Emails |-> 0]
  /\ acked = {}

Next ==
  \/ ConnectOk
  \/ ConnectFail
  \/ \E s \in Slots, b \in ContactBodies : StartContactPost(s, b)
  \/ \E s \in Slots : ContactSave(s)
  \/ \E s \in Slots : StartContactGet(s)
  \/ \E s \in Slots : ContactFind(s)
  \/ \E s \in Slots, b \in SignupBodies : StartSignup(s, b)
  \/ \E s \in Slots : SignupFindOne(s)
  \/ \E s \in Slots : SignupHash(s)
  \/ \E s \in Slots : SignupSave(s)
  \/ \E s \in Slots, b \in LoginBodies : StartLogin(s, b)
  \/ \E s \in Slots : LoginFindOne(s)
  \/ \E s \in Slots : LoginCompare(s)
  \/ \E s \in Slots, b \in PredictBodies : StartPredict(s, b)
  \/ \E s \in Slots : PredictPost(s)
  \/ \E s \in Slots, o \in UpstreamData \cup UpstreamFailures : PredictSettle(s, o)
  \/ \E s \in Slots : Finish(s)

Spec == Init /\ [][Next]_vars

(* ------------------------------ fairness ------------------------------- *)
\* the steps of the handler in slot s after the request was received: each is
\* the continuation of a call that returns or fails
Step(s) ==
  \/ ContactSave(s)
  \/ ContactFind(s)
  \/ SignupFindOne(s)
  \/ SignupHash(s)
  \/ SignupSave(s)
  \/ LoginFindOne(s)
  \/ LoginCompare(s)
  \/ PredictPost(s)
  \/ \E o \in UpstreamData \cup UpstreamFailures : PredictSettle(s, o)

\* the connection attempt settles, and every awaited call eventually settles
FairSpec ==
  /\ Init
  /\ [][Next]_vars
  /\ WF_vars(ConnectOk \/ ConnectFail)
  /\ \A s \in Slots : WF_vars(Step(s))

(* ---------------------------- claim vocabulary ------------------------- *)
Done(s, kind) == req[s].kind = kind /\ req[s].pc = "done"

Status(s) == req[s].out[1].status

\* slot s sends its response in this step
Responds(s, kind) == req[s].kind = kind /\ InFlight(s) /\ req'[s].pc = "done"

StatusNext(s) == req'[s].out[Len(req'[s].out)].status

\* all four fields of a signup body are present
Complete(b) ==
  b.firstName # Undefined /\ b.lastName # Undefined /\ b.password # Undefined

Registered(email) == \E i \in 1..Len(users) : users[i].email = email

\* verify(password, storedHash) against the record stored for the email: the
\* password hashes, with some salt, to the stored value
Verified(b) ==
  \E i \in 1..Len(users), salt \in Salts :
    users[i].email = b.email /\ Hash(b.password, salt) = users[i].password

\* the response of a finished request
Sole(s) == req[s].out[1]

(* C1 as stated: at most one signup per email is ever answered 201, and a    *)
(* signup that ran with no other signup for its email in flight, on an email *)
(* that had no User, with the datastore connected, is answered 201.          *)
C1_Original ==
  /\ \A e \in Emails : n201[e] <= 1
  /\ \A s \in Slots :
       Done(s, "signup") /\ StorageOk /\ req[s].h.alone
         => Status(s) = 201

(* C1 amended: as C1, for a signup whose body carries all four fields.       *)
C1_OncePerEmail ==
  /\ \A e \in Emails : n201[e] <= 1
  /\ \A s \in Slots :
       Done(s, "signup") /\ StorageOk /\ req[s].h.alone
       /\ Complete(req[s].body)
         => Status(s) = 201

\* C1 witness: a signup that ran alone was answered 201, its repetition 400
C1_Witness ==
  \E s, t \in Slots :
    /\ Done(s, "signup") /\ req[s].h.alone
    /\ Complete(req[s].body) /\ Status(s) = 201
    /\ Done(t, "signup") /\ req[t].body.email = req[s].body.email
    /\ Status(t) = 400
    /\ n201[req[s].body.email] = 1

(* C2: with the datastore connected, a complete signup that is answered      *)
(* while a User with its email is already stored is answered 400 "User       *)
(* already exists", also when the duplicate is detected only at insert time. *)
C2_DuplicateAlways400 ==
  [][\A s \in Slots :
       Responds(s, "signup") /\ StorageOk /\ Complete(req[s].body)
       /\ Registered(req[s].body.email)
         => /\ StatusNext(s) = 400
            /\ req'[s].out[1].json = MsgJson("User already exists")]_vars

(* C3: no two records of the users collection have the same email.           *)
C3_EmailUnique ==
  \A i, j \in 1..Len(users) : i # j => users[i].email # users[j].email

\* C3 witness: a handler that had passed the pre-check was rejected at insert
C3_Witness ==
  \E s \in Slots :
    /\ Done(s, "signup") /\ StorageOk /\ Complete(req[s].body)
    /\ Status(s) = 500
    /\ Registered(req[s].body.email)
    /\ Len(users) = 2

(* C4 as stated: a login is answered 200 iff a User with the email exists    *)
(* and verify(password, storedHash) is true, and in every other case 401     *)
(* "Invalid email or password".                                              *)
C4_Original ==
  [][\A s \in Slots :
       Responds(s, "login")
         => /\ StatusNext(s) = 200 <=> Verified(req[s].body)
            /\ StatusNext(s) # 200
                 => /\ StatusNext(s) = 401
                    /\ req'[s].out[1].json = MsgJson("Invalid email or password")]_vars

(* C4 amended: 200 iff the datastore is connected, a User with the email     *)
(* exists and verify is true; 500 "Error logging in." iff the lookup fails   *)
(* or bcrypt.compare rejects (no password, on a stored email); in every      *)
(* remaining case 401 "Invalid email or password".                           *)
C4_LoginOutcome ==
  [][\A s \in Slots :
       Responds(s, "login")
         => LET b == req[s].body
                st == StatusNext(s)
                js == req'[s].out[1].json
            IN /\ st = 200 <=> StorageOk /\ Verified(b)
               /\ st = 200 => js.message = "Login successful" /\ js.name = "A"
               /\ st = 500 <=> ~StorageOk \/ (Registered(b.email) /\ HashThrows(b.password))
               /\ st = 500 => js = MsgJson("Error logging in.")
               /\ st \notin {200, 500}
                    => st = 401 /\ js = MsgJson("Invalid email or password")]_vars

\* C4 witness: one login was answered 200, one with the wrong password 401
C4_Witness ==
  \E s, t \in Slots :
    /\ Done(s, "login") /\ Status(s) = 200
    /\ Done(t, "login") /\ Status(t) = 401
    /\ req[t].body.email = req[s].body.email

(* C5: two failed logins, one on an email with no User and one on a stored   *)
(* email, get the same response: the status and body of a failed login do    *)
(* not depend on whether the email is registered.                            *)
C5_FailedLoginsAlike ==
  \A s, t \in Slots :
    (/\ Done(s, "login") /\ Done(t, "login") /\ StorageOk
     /\ req[s].h.fresh /\ ~req[t].h.fresh
     /\ Status(t) # 200)
      => Sole(s) = Sole(t)

(* C6: a signup step leaves contacts alone; it adds exactly one record, with *)
(* its email, to users when it answers 201 and leaves users alone otherwise; *)
(* steps of login, contact listing and predict leave both collections alone. *)
C6_Frame ==
  [][\A s \in Slots :
       req'[s] # req[s]
         => LET k == IF Free(s) THEN req'[s].kind ELSE req[s].kind
                created == Responds(s, "signup") /\ StatusNext(s) = 201
            IN /\ k = "signup" => contacts' = contacts
               /\ k = "signup" /\ created
                    => /\ Len(users') = Len(users) + 1
                       /\ SubSeq(users', 1, Len(users)) = users
                       /\ users'[Len(users')].email = req[s].body.email
               /\ k = "signup" /\ ~created => users' = users
               /\ k \in {"login", "contact_get", "predict"}
                    => users' = users /\ contacts' = contacts]_vars

\* C6 witness: a duplicate signup was answered 400 with both collections in use
C6_Witness ==
  \E s \in Slots :
    /\ Done(s, "signup") /\ Status(s) = 400
    /\ Len(users) = 2 /\ Len(contacts) = 1

(* C7: a listing answered 200 contains every contact whose submission had    *)
(* been answered 201 before the listing request began.                       *)
C7_ListingIncludesAcked ==
  \A s \in Slots :
    Done(s, "contact_get") /\ Status(s) = 200
      => req[s].h.saw \subseteq Range(Sole(s).json.items)

\* C7 witness: a listing that began after an acknowledged submit, and during
\* which another submit was stored, was answered 200
C7_Witness ==
  \E s \in Slots :
    /\ Done(s, "contact_get") /\ Status(s) = 200
    /\ Cardinality(req[s].h.saw) = 1
    /\ Len(Sole(s).json.items) = 2
    /\ Sole(s).json.items[1] # Sole(s).json.items[2]

\* the generic message of each datastore-backed endpoint's catch block
Generic(kind) ==
  CASE kind = "contact_post" -> "Error saving contact message."
    [] kind = "contact_get" -> "Error fetching contact messages."
    [] kind = "signup" -> "Error registering user."
    [] kind = "login" -> "Error logging in."
    [] OTHER -> Undefined

(* C8: after the connection attempt failed the server still takes requests,  *)
(* every datastore-backed request is answered 500 with its endpoint's        *)
(* generic message, and no record has been written.                          *)
C8_Degraded ==
  /\ [](db = "failed"
          => \A s \in Slots :
               /\ req[s].pc = "done" /\ Generic(req[s].kind) # Undefined
                    => req[s].out =
                         <<[status |-> 500, json |-> MsgJson(Generic(req[s].kind))]>>
               /\ Free(s)
                    => /\ ENABLED StartContactGet(s)
                       /\ \A b \in SignupBodies : ENABLED StartSignup(s, b)
                       /\ \A b \in LoginBodies : ENABLED StartLogin(s, b))
  /\ [][db = "failed" => users' = users /\ contacts' = contacts]_vars

\* C8 witness: with the connection failed, a signup and a submit were answered
C8_Witness ==
  /\ db = "failed"
  /\ Done(1, "signup") /\ Complete(req[1].body)
  /\ Done(2, "contact_post") /\ ContactValid(req[2].body)

(* C9: a predict handler posts its six fields upstream exactly once, as      *)
(* received, and answers 200 with the upstream body when that call succeeds  *)
(* and 500 "Error processing prediction request" when it fails.              *)
C9_Proxy ==
  \A s \in Slots :
    req[s].kind = "predict"
      => /\ req[s].pc = "p_post" => req[s].loc.sent = <<>>
         /\ req[s].pc \in {"p_await", "done"} => req[s].loc.sent = <<req[s].body>>
         /\ req[s].pc = "done"
              => \E o \in req[s].loc.reply :
                   /\ req[s].loc.reply = {o}
                   /\ o \in UpstreamData
                        => req[s].out = <<[status |-> 200,
                                           json |-> Json(Undefined, Undefined, <<>>, o)]>>
                   /\ o \in UpstreamFailures
                        => req[s].out =
                             <<[status |-> 500,
                                json |-> MsgJson("Error processing prediction request")]>>

\* C9 witness: one predict was answered from upstream, another after a timeout
C9_Witness ==
  /\ Done(1, "predict") /\ Status(1) = 200
  /\ Done(2, "predict") /\ req[2].loc.reply = {"timeout"}
  /\ req[1].body # req[2].body

\* the statuses the interface table lists for each endpoint
Listed(kind) ==
  CASE kind = "contact_post" -> {201, 500}
    [] kind = "contact_get" -> {200, 500}
    [] kind = "signup" -> {201, 400, 500}
    [] kind = "login" -> {200, 401, 500}
    [] kind = "predict" -> {200, 500}
    [] OTHER -> {}

(* C10: under fairness of the awaited calls, every request that has been      *)
(* received is eventually answered; a handler in flight has sent nothing, a   *)
(* finished one has sent exactly one response, and its status is one of those *)
(* listed for its endpoint.                                                   *)
C10_OneListedResponse ==
  /\ [](\A s \in Slots :
          /\ InFlight(s) => Len(req[s].out) = 0
          /\ req[s].pc = "done" =>
               Len(req[s].out) = 1 /\ Status(s) \in Listed(req[s].kind))
  /\ \A s \in Slots : InFlight(s) ~> req[s].pc = "done"

\* C10 witness: two handlers that interleaved have both been answered
C10_Witness ==
  /\ Done(1, "signup") /\ Status(1) = 500
  /\ Done(2, "login") /\ Status(2) = 200
====
